---- MODULE Spec2Model ----
(***************************************************************************)
(* A model of the material-deposition and tool-path code of                *)
(* pybullet_industrial: the Extruder end effector (extruder.py), the       *)
(* Particle / Plastic / Paint materials (material.py) and ToolPath         *)
(* (toolpath.py), and of RobotBase (wbk_sim/robot_base.py).  The physics   *)
(* engine is modelled by the part of its state these classes touch: the    *)
(* multibodies, the user debug items, and the robot's base and joints.     *)
(***************************************************************************)
EXTENDS Integers, Sequences, FiniteSets, TLC

VARIABLES
    engine,     \* the physics engine: bodies, debug items and their id counters
    particles,  \* the particle objects constructed so far, by handle
    extruder,   \* the Extruder object, or NoExtruder before its construction
    paths,      \* the ToolPath objects, by name
    robot,      \* the RobotBase object's body in the engine, or NoRobot
    last        \* the operation that acted last: its arguments, outcome and pre-state

vars == <<engine, particles, extruder, paths, robot, last>>

(***************************************************************************)
(* Bounds of the model.                                                    *)
(***************************************************************************)
MaxParticles == 2   \* particle objects constructed in one behaviour
MaxRays == 2        \* 'number of rays' an extruder is configured with
MaxProps == 2       \* entries of a material-properties dictionary argument

(***************************************************************************)
(* Python dictionaries.  A dictionary argument is the sequence of its      *)
(* <<key, value>> items in iteration order (keys distinct); a dictionary   *)
(* held by an object is a function from its keys.                          *)
(***************************************************************************)
Keys(items) == {items[i][1] : i \in DOMAIN items}

Value(items, key) == items[CHOOSE i \in DOMAIN items : items[i][1] = key][2]

DistinctKeys(items) == \A i, j \in DOMAIN items : items[i][1] = items[j][1] => i = j

SeqsUpTo(S, n) == UNION {[1..k -> S] : k \in 0..n}

\* particle sizes are in hundredths: 3 is 0.03, 30 is 0.3
MaterialItems == {<<"particle size", 6>>, <<"color", "blue">>, <<"density", 1>>}

MaterialDicts == {d \in SeqsUpTo(MaterialItems, MaxProps) : DistinctKeys(d)}

(***************************************************************************)
(* The engine.  Body 0 is an object of the scene with one link; the other  *)
(* bodies are the spheres Plastic creates.  createMultiBody and            *)
(* addUserDebugLine hand out ids that were never used before.              *)
(***************************************************************************)
Positions == {"x1", "x2"}

Origin == "x0"

Links(body) == IF body = 0 THEN {-1, 0} ELSE {-1}

\* what rayTestBatch can return for one ray: a miss, or a hit on a live body
Miss == [objectUniqueId |-> -1, linkIndex |-> -1, hitPosition |-> Origin]

RayResults(eng) ==
    {Miss} \cup
    {r \in [objectUniqueId : DOMAIN eng.bodies, linkIndex : {-1, 0},
            hitPosition : Positions] : r.linkIndex \in Links(r.objectUniqueId)}

createMultiBody(eng, basePosition, radius, rgbaColor) ==
    [eng EXCEPT
        !.bodies = @ @@ (eng.nextBodyId :>
            [basePosition |-> basePosition, radius |-> radius, rgbaColor |-> rgbaColor]),
        !.nextBodyId = @ + 1]

removeBody(eng, bodyUniqueId) ==
    [eng EXCEPT !.bodies = [b \in DOMAIN @ \ {bodyUniqueId} |-> @[b]]]

addUserDebugLine(eng, lineColorRGB, lineWidth, parentObjectUniqueId, parentLinkIndex) ==
    [eng EXCEPT
        !.debugItems = @ @@ (eng.nextItemId :>
            [lineColorRGB |-> lineColorRGB, lineWidth |-> lineWidth,
             parentObjectUniqueId |-> parentObjectUniqueId,
             parentLinkIndex |-> parentLinkIndex]),
        !.nextItemId = @ + 1]

removeUserDebugItem(eng, itemUniqueId) ==
    [eng EXCEPT !.debugItems = [i \in DOMAIN @ \ {itemUniqueId} |-> @[i]]]

(***************************************************************************)
(* material.py: Particle.set_material_properties.  The loop assigns the    *)
(* keys in iteration order and raises KeyError at the first key that is    *)
(* not a property; the assignments made before it stay.                    *)
(***************************************************************************)
\* mutant: an unknown key is stored instead of raising KeyError
RECURSIVE set_material_properties_storing(_, _)
set_material_properties_storing(properties, new_properties) ==
    IF new_properties = <<>>
    THEN [raised |-> FALSE, properties |-> properties]
    ELSE set_material_properties_storing(
            [k \in DOMAIN properties \cup {new_properties[1][1]} |->
                IF k = new_properties[1][1] THEN new_properties[1][2] ELSE properties[k]],
            Tail(new_properties))

RECURSIVE set_material_properties(_, _)
set_material_properties(properties, new_properties) ==
    IF new_properties = <<>>
    THEN [raised |-> FALSE, properties |-> properties]
    ELSE LET key == new_properties[1][1]
             value == new_properties[1][2]
         IN  IF key \notin DOMAIN properties
             THEN [raised |-> TRUE, properties |-> properties]
             ELSE set_material_properties([properties EXCEPT ![key] = value],
                                          Tail(new_properties))

DefaultMaterialProperties == [k \in {"particle size", "color"} |->
    IF k = "particle size" THEN 30 ELSE "red"]

(***************************************************************************)
(* material.py: Plastic.__init__.  One sphere at the hit position.         *)
(***************************************************************************)
Plastic_init(eng, ray_cast_result, material_properties) ==
    LET set == set_material_properties(DefaultMaterialProperties, material_properties)
    IN  IF set.raised
        THEN [outcome |-> "KeyError", engine |-> eng]
        ELSE [outcome |-> "ok",
              engine |-> createMultiBody(eng, ray_cast_result.hitPosition,
                                         set.properties["particle size"],
                                         set.properties["color"]),
              particle |-> [cls |-> "Plastic", properties |-> set.properties,
                            particle_id |-> eng.nextBodyId]]

(***************************************************************************)
(* material.py: Paint.__init__.  Nothing for a miss; for a hit, steps - 1  *)
(* debug lines parented to the struck body and link.                       *)
(***************************************************************************)
steps == 3

RECURSIVE Paint_lines(_, _, _, _, _)
Paint_lines(eng, i, particle_ids, ray_cast_result, properties) ==
    IF i > steps - 1
    THEN [engine |-> eng, particle_ids |-> particle_ids]
    ELSE Paint_lines(addUserDebugLine(eng, properties["color"],
                                      properties["particle size"] * 500,
                                      ray_cast_result.objectUniqueId,
                                      ray_cast_result.linkIndex),
                     i + 1, Append(particle_ids, eng.nextItemId),
                     ray_cast_result, properties)

Paint_init(eng, ray_cast_result, material_properties) ==
    LET set == set_material_properties(DefaultMaterialProperties, material_properties)
    IN  IF set.raised
        THEN [outcome |-> "KeyError", engine |-> eng]
        ELSE LET drawn == IF ray_cast_result.objectUniqueId # -1
                          THEN Paint_lines(eng, 1, <<>>, ray_cast_result, set.properties)
                          ELSE [engine |-> eng, particle_ids |-> <<>>]
             IN  [outcome |-> "ok",
                  engine |-> drawn.engine,
                  particle |-> [cls |-> "Paint", properties |-> set.properties,
                                particle_ids |-> drawn.particle_ids]]

Material_init(cls, eng, ray_cast_result, material_properties) ==
    IF cls = "Plastic"
    THEN Plastic_init(eng, ray_cast_result, material_properties)
    ELSE Paint_init(eng, ray_cast_result, material_properties)

(***************************************************************************)
(* material.py: Plastic.remove and Paint.remove.                           *)
(***************************************************************************)
Plastic_remove(eng, particle) == removeBody(eng, particle.particle_id)

\* mutant: only the first debug line is removed
Paint_remove_first(eng, particle_ids) ==
    IF particle_ids = <<>> THEN eng ELSE removeUserDebugItem(eng, Head(particle_ids))

RECURSIVE Paint_remove(_, _)
Paint_remove(eng, particle_ids) ==
    IF particle_ids = <<>> THEN eng
    ELSE Paint_remove(removeUserDebugItem(eng, Head(particle_ids)), Tail(particle_ids))

remove(eng, particle) ==
    IF particle.cls = "Plastic"
    THEN Plastic_remove(eng, particle)
    ELSE Paint_remove(eng, particle.particle_ids)

(***************************************************************************)
(* extruder.py: Extruder.__init__.  The RayCaster defaults are the ones    *)
(* the constructor's documentation lists; the constructor then installs    *)
(* Plastic and its material properties and applies extruder_properties     *)
(* with change_properties.  change_properties belongs to RayCaster, whose  *)
(* source is not part of the files modelled here: it is taken to behave as *)
(* set_material_properties does (KeyError for a key that is no property).  *)
(***************************************************************************)
RayCasterDefaults == [k \in {"opening angle", "number of rays", "maximum distance"} |->
    IF k = "opening angle" THEN 0 ELSE 1]

change_properties(properties, new_properties) ==
    set_material_properties(properties, new_properties)

Extruder_init(extruder_properties) ==
    LET properties == RayCasterDefaults @@
            [k \in {"material", "material properties"} |->
                IF k = "material" THEN "Plastic"
                ELSE <<<<"particle size", 3>>, <<"color", "red">>>>]
        changed == change_properties(properties, extruder_properties)
    IN  IF changed.raised
        THEN [outcome |-> "KeyError"]
        ELSE [outcome |-> "ok", extruder |-> [properties |-> changed.properties]]

(***************************************************************************)
(* extruder.py: Extruder.extrude, the loop over the ray-cast results.  A   *)
(* material constructor that raises ends the call; what the engine was     *)
(* given before stays.                                                     *)
(***************************************************************************)
RECURSIVE extrude_loop(_, _, _, _)
extrude_loop(eng, properties, ray_cast_results, particle_list) ==
    IF ray_cast_results = <<>>
    THEN [outcome |-> "ok", engine |-> eng, particle_list |-> particle_list]
    ELSE LET ray_intersection == Head(ray_cast_results)
         IN  IF ray_intersection.objectUniqueId # -1
             THEN LET made == Material_init(properties["material"], eng, ray_intersection,
                                            properties["material properties"])
                  IN  IF made.outcome # "ok"
                      THEN [outcome |-> made.outcome, engine |-> made.engine,
                            particle_list |-> <<>>]
                      ELSE extrude_loop(made.engine, properties, Tail(ray_cast_results),
                                        Append(particle_list, made.particle))
             ELSE extrude_loop(eng, properties, Tail(ray_cast_results), particle_list)

\* mutant: the test for a miss is left out
RECURSIVE extrude_unfiltered_loop(_, _, _, _)
extrude_unfiltered_loop(eng, properties, ray_cast_results, particle_list) ==
    IF ray_cast_results = <<>>
    THEN [outcome |-> "ok", engine |-> eng, particle_list |-> particle_list]
    ELSE LET made == Material_init(properties["material"], eng, Head(ray_cast_results),
                                   properties["material properties"])
         IN  IF made.outcome # "ok"
             THEN [outcome |-> made.outcome, engine |-> made.engine, particle_list |-> <<>>]
             ELSE extrude_unfiltered_loop(made.engine, properties, Tail(ray_cast_results),
                                          Append(particle_list, made.particle))

extrude_unfiltered(eng, properties, ray_cast_results) ==
    extrude_unfiltered_loop(eng, properties, ray_cast_results, <<>>)

extrude(eng, properties, ray_cast_results) ==
    extrude_loop(eng, properties, ray_cast_results, <<>>)

(***************************************************************************)
(* The state after start-up: a scene with body 0, no particle, no          *)
(* extruder, no tool path.                                                 *)
(***************************************************************************)
NoExtruder == [properties |-> <<>>]

NoPath == [outcome |-> "none"]

NoRobot == [urdf |-> "none"]

PathNames == {"a", "b"}

SceneBody == [basePosition |-> Origin, radius |-> 0, rgbaColor |-> "none"]

Init ==
    /\ engine = [bodies |-> (0 :> SceneBody), nextBodyId |-> 1,
                 debugItems |-> <<>>, nextItemId |-> 0]
    /\ particles = <<>>
    /\ extruder = NoExtruder
    /\ paths = [n \in PathNames |-> NoPath]
    /\ robot = NoRobot
    /\ last = [op |-> "none"]

Pre == [bodies |-> DOMAIN engine.bodies, items |-> DOMAIN engine.debugItems,
        count |-> Len(particles)]

\* a newly constructed particle object: held by the program, remove() not yet called
Object(particle) == particle @@ [held |-> TRUE, removeCalled |-> FALSE]

\* the dictionaries given to Extruder(...): with and without 'material', with an
\* unknown key, and with material properties no material accepts
ExtruderItems ==
    {<<"material", m>> : m \in {"Plastic", "Paint"}} \cup
    {<<"number of rays", n>> : n \in 1..MaxRays} \cup
    {<<"material properties", <<<<"density", 1>>>>>>, <<"nozzle", 1>>}

ExtruderDicts == {d \in SeqsUpTo(ExtruderItems, MaxProps) : DistinctKeys(d)}

\* the model follows one Extruder object: it is constructed once (a constructor
\* that raised left no object, and may be tried again)
ExtruderInit ==
    \E extruder_properties \in ExtruderDicts :
        LET made == Extruder_init(extruder_properties)
        IN  /\ extruder = NoExtruder
            /\ extruder' = IF made.outcome = "ok" THEN made.extruder ELSE extruder
            /\ last' = [op |-> "Extruder", extruder_properties |-> extruder_properties,
                        outcome |-> made.outcome]
            /\ UNCHANGED <<engine, particles, paths, robot>>

\* cast_rays returns one result per configured ray; the engine decides what each hit
Extrude ==
    /\ extruder # NoExtruder
    /\ \E ray_cast_results \in
            [1..extruder.properties["number of rays"] -> RayResults(engine)] :
        LET done == extrude(engine, extruder.properties, ray_cast_results)
            first == Len(particles) + 1
        IN  /\ Len(particles) + Len(done.particle_list) <= MaxParticles
            /\ engine' = done.engine
            /\ particles' = particles \o
                    [i \in DOMAIN done.particle_list |-> Object(done.particle_list[i])]
            /\ last' = [op |-> "extrude", ray_cast_results |-> ray_cast_results,
                        outcome |-> done.outcome,
                        particle_list |-> [i \in DOMAIN done.particle_list |-> first + i - 1],
                        pre |-> Pre]
            /\ UNCHANGED <<extruder, paths, robot>>

NewParticle(cls, rays, dicts) ==
    /\ Len(particles) < MaxParticles
    /\ \E ray_cast_result \in rays, material_properties \in dicts :
        LET made == Material_init(cls, engine, ray_cast_result, material_properties)
        IN  /\ engine' = made.engine
            /\ particles' = IF made.outcome = "ok"
                            THEN Append(particles, Object(made.particle))
                            ELSE particles
            /\ last' = [op |-> cls, ray_cast_result |-> ray_cast_result,
                        material_properties |-> material_properties,
                        outcome |-> made.outcome, handle |-> Len(particles) + 1,
                        pre |-> Pre]
            /\ UNCHANGED <<extruder, paths, robot>>

SetMaterialProperties ==
    \E h \in DOMAIN particles, new_properties \in MaterialDicts :
        LET set == set_material_properties(particles[h].properties, new_properties)
        IN  /\ particles[h].held
            /\ particles' = [particles EXCEPT ![h].properties = set.properties]
            /\ last' = [op |-> "set_material_properties", handle |-> h,
                        new_properties |-> new_properties,
                        outcome |-> IF set.raised THEN "KeyError" ELSE "ok",
                        before |-> particles[h].properties]
            /\ UNCHANGED <<engine, extruder, paths, robot>>

Remove ==
    \E h \in DOMAIN particles :
        /\ particles[h].held
        /\ engine' = remove(engine, particles[h])
        /\ particles' = [particles EXCEPT ![h].removeCalled = TRUE]
        /\ last' = [op |-> "remove", handle |-> h, pre |-> Pre]
        /\ UNCHANGED <<extruder, paths, robot>>

\* mutant: __del__ removes the particle from the simulation
Drop_removing ==
    \E h \in DOMAIN particles :
        /\ particles[h].held
        /\ engine' = remove(engine, particles[h])
        /\ particles' = [particles EXCEPT ![h].held = FALSE]
        /\ last' = [op |-> "del", handle |-> h, pre |-> Pre]
        /\ UNCHANGED <<extruder, paths, robot>>

\* the program drops its last reference to a particle; no class defines __del__
Drop ==
    \E h \in DOMAIN particles :
        /\ particles[h].held
        /\ particles' = [particles EXCEPT ![h].held = FALSE]
        /\ last' = [op |-> "del", handle |-> h, pre |-> Pre]
        /\ UNCHANGED <<engine, extruder, paths, robot>>

(***************************************************************************)
(* Spec: the life of particles in the engine.  Particles are constructed   *)
(* from any ray result, with the default properties or with a dictionary   *)
(* the material rejects, and are removed and dropped in any order.         *)
(***************************************************************************)
LifeDicts == {<<>>, <<<<"density", 1>>>>}

NewPlastic == NewParticle("Plastic", RayResults(engine), LifeDicts)

NewPaint == NewParticle("Paint", RayResults(engine), LifeDicts)

Next ==
    \/ NewPlastic
    \/ NewPaint
    \/ Remove
    \/ Drop

Spec == Init /\ [][Next]_vars

(***************************************************************************)
(* SpecExtruder: an extruder is constructed and extrudes.                  *)
(***************************************************************************)
NextExtruder ==
    \/ ExtruderInit
    \/ Extrude

SpecExtruder == Init /\ [][NextExtruder]_vars

(***************************************************************************)
(* SpecMaterial: particles with the default properties have their          *)
(* properties set.                                                         *)
(***************************************************************************)
SurfaceHit == [objectUniqueId |-> 0, linkIndex |-> -1, hitPosition |-> "x1"]

DefaultPlastic == NewParticle("Plastic", {SurfaceHit}, {<<>>})

DefaultPaint == NewParticle("Paint", {SurfaceHit}, {<<>>})

NextMaterial ==
    \/ DefaultPlastic
    \/ DefaultPaint
    \/ SetMaterialProperties

SpecMaterial == Init /\ [][NextMaterial]_vars

(***************************************************************************)
(* Properties of the extruder and the materials.                           *)
(***************************************************************************)
Range(f) == {f[i] : i \in DOMAIN f}

IsHit(ray_cast_result) == ray_cast_result.objectUniqueId # -1

Hits(ray_cast_results) == SelectSeq(ray_cast_results, IsHit)

\* the particle was made by the extruder's material from this hit, in the call that
\* started in the engine state last.pre
MadeFrom(particle, hit) ==
    /\ particle.cls = extruder.properties["material"]
    /\ particle.cls = "Plastic" =>
        /\ particle.particle_id \notin last.pre.bodies
        /\ particle.particle_id \in DOMAIN engine.bodies
        /\ engine.bodies[particle.particle_id].basePosition = hit.hitPosition
    /\ particle.cls = "Paint" =>
        /\ particle.particle_ids # <<>>
        /\ \A id \in Range(particle.particle_ids) :
            /\ id \notin last.pre.items
            /\ engine.debugItems[id].parentObjectUniqueId = hit.objectUniqueId
            /\ engine.debugItems[id].parentLinkIndex = hit.linkIndex

\* C1: extrude returns exactly one particle for every ray result that hit an object,
\* in the order of the ray results, and makes no particle for a ray that hit nothing:
\* the returned list is as long as the number of hits.
C1_ExtrudeOneParticlePerHit ==
    (last.op = "extrude" /\ last.outcome = "ok") =>
        LET hits == Hits(last.ray_cast_results)
        IN  /\ Len(last.particle_list) = Len(hits)
            /\ Len(particles) = last.pre.count + Len(hits)
            /\ Cardinality(Range(last.particle_list)) = Len(hits)
            /\ Cardinality(DOMAIN engine.bodies) + Cardinality(DOMAIN engine.debugItems)
                    = Cardinality(last.pre.bodies) + Cardinality(last.pre.items)
                      + (IF extruder.properties["material"] = "Plastic"
                         THEN Len(hits) ELSE Len(hits) * (steps - 1))
            /\ \A k \in DOMAIN hits :
                /\ last.particle_list[k] \in (last.pre.count + 1)..Len(particles)
                /\ MadeFrom(particles[last.particle_list[k]], hits[k])

\* two rays, the first of which hit nothing, gave one particle
C1_Witness ==
    /\ last.op = "extrude"
    /\ last.outcome = "ok"
    /\ Len(last.ray_cast_results) = 2
    /\ ~IsHit(last.ray_cast_results[1])
    /\ IsHit(last.ray_cast_results[2])
    /\ Len(last.particle_list) = 1

\* C2: constructing an Extruder whose extruder_properties has no 'material' raises
\* ValueError.
C2_NoMaterialRaisesValueError ==
    (last.op = "Extruder" /\ "material" \notin Keys(last.extruder_properties)) =>
        last.outcome = "ValueError"

\* C3: set_material_properties raises KeyError exactly when new_properties has a key
\* that is no key of the particle's properties; when it does not raise, the given keys
\* have their new values and every other property its old one; the set of keys never
\* grows.
C3_SetMaterialProperties ==
    last.op = "set_material_properties" =>
        LET new == last.new_properties
            old == last.before
            now == particles[last.handle].properties
        IN  /\ (last.outcome = "KeyError") <=> (\E k \in Keys(new) : k \notin DOMAIN old)
            /\ last.outcome \in {"KeyError", "ok"}
            /\ last.outcome = "ok" =>
                /\ DOMAIN now = DOMAIN old
                /\ \A k \in DOMAIN now :
                    now[k] = IF k \in Keys(new) THEN Value(new, k) ELSE old[k]
            /\ DOMAIN now \subseteq DOMAIN old

\* one key was set and the other, which had been changed before, kept its value
C3_Witness ==
    /\ last.op = "set_material_properties"
    /\ last.outcome = "ok"
    /\ Keys(last.new_properties) = {"particle size"}
    /\ last.before["particle size"] = 30
    /\ last.before["color"] = "blue"
    /\ particles[last.handle].properties["particle size"] = 6
    /\ particles[last.handle].properties["color"] = "blue"

\* C4: constructing a Plastic particle creates exactly one body, at the hit position;
\* the body stays in the simulation until remove() is called on the particle, also
\* when the particle object is dropped; remove() removes exactly that body.
C4_PlasticBodyLifetime ==
    /\ \A h \in DOMAIN particles :
        (particles[h].cls = "Plastic" /\ ~particles[h].removeCalled) =>
            particles[h].particle_id \in DOMAIN engine.bodies
    /\ (last.op = "Plastic" /\ last.outcome = "ok") =>
        LET id == particles[last.handle].particle_id
        IN  /\ id \notin last.pre.bodies
            /\ DOMAIN engine.bodies = last.pre.bodies \cup {id}
            /\ engine.bodies[id].basePosition = last.ray_cast_result.hitPosition
    /\ (last.op = "remove" /\ particles[last.handle].cls = "Plastic") =>
        DOMAIN engine.bodies = last.pre.bodies \ {particles[last.handle].particle_id}

\* a dropped Plastic particle's body is still there after another one was removed
C4_Witness ==
    /\ last.op = "remove"
    /\ particles[last.handle].cls = "Plastic"
    /\ particles[last.handle].particle_id \in last.pre.bodies
    /\ \E h \in DOMAIN particles :
        /\ h # last.handle
        /\ particles[h].cls = "Plastic"
        /\ ~particles[h].held
        /\ ~particles[h].removeCalled
        /\ particles[h].particle_id \in DOMAIN engine.bodies

\* C5: a Paint particle made from a ray that hit nothing creates no debug item; made
\* from a hit it creates debug lines that are all parented to the struck body and link;
\* remove() removes exactly the items the particle created.
C5_PaintItems ==
    /\ (last.op = "Paint" /\ last.outcome = "ok") =>
        LET ids == Range(particles[last.handle].particle_ids)
        IN  /\ ids \cap last.pre.items = {}
            /\ DOMAIN engine.debugItems = last.pre.items \cup ids
            /\ ~IsHit(last.ray_cast_result) => ids = {}
            /\ IsHit(last.ray_cast_result) =>
                /\ ids # {}
                /\ \A id \in ids :
                    /\ engine.debugItems[id].parentObjectUniqueId
                            = last.ray_cast_result.objectUniqueId
                    /\ engine.debugItems[id].parentLinkIndex
                            = last.ray_cast_result.linkIndex
    /\ (last.op = "remove" /\ particles[last.handle].cls = "Paint") =>
        /\ DOMAIN engine.debugItems
                = last.pre.items \ Range(particles[last.handle].particle_ids)
        /\ DOMAIN engine.bodies = last.pre.bodies
    /\ \A h1, h2 \in DOMAIN particles :
        (h1 # h2 /\ particles[h1].cls = "Paint" /\ particles[h2].cls = "Paint") =>
            Range(particles[h1].particle_ids) \cap Range(particles[h2].particle_ids) = {}

\* a Paint particle on a link was removed while another one's lines stayed
C5_Witness ==
    /\ last.op = "remove"
    /\ particles[last.handle].cls = "Paint"
    /\ Range(particles[last.handle].particle_ids) \subseteq last.pre.items
    /\ Range(particles[last.handle].particle_ids) # {}
    /\ \E h \in DOMAIN particles :
        /\ h # last.handle
        /\ particles[h].cls = "Paint"
        /\ Range(particles[h].particle_ids) # {}
        /\ Range(particles[h].particle_ids) \subseteq DOMAIN engine.debugItems

(***************************************************************************)
(* toolpath.py.  An array value records what Python sees of it: whether it *)
(* is a numpy array or a list, its number of dimensions and its rows (a    *)
(* 1-dimensional array has its entries as its one row).  positions is a    *)
(* (3, n) array, orientations a (4, n) array.  A path holds its arrays by  *)
(* value: append and prepend build new arrays, and two paths constructed   *)
(* from one array object are not followed as sharing it.                   *)
(***************************************************************************)
MaxLen == 2       \* poses of a constructed path
MaxPathLen == MaxLen + 1   \* poses of a path grown by append and prepend
MaxCoord == 2     \* largest coordinate translate reaches

None == [type |-> "None"]

Array(type, ndim, rows) == [type |-> type, ndim |-> ndim, rows |-> rows]

\* the (d, n) array whose columns are the n given d-vectors
FromColumns(type, d, columns) ==
    Array(type, 2, [r \in 1..d |-> [i \in DOMAIN columns |-> columns[i][r]]])

Column(array, i) == [r \in DOMAIN array.rows |-> array.rows[r][i]]

RECURSIVE Flatten(_)
Flatten(rows) == IF rows = <<>> THEN <<>> ELSE Head(rows) \o Flatten(Tail(rows))

Size(array) == Len(Flatten(array.rows))

\* `x == None` used as a condition: None itself is true, a list is false, a numpy
\* array is compared element by element and its truth value is an error when it
\* has more than one element (and, depending on the numpy version, when it has none)
EqNoneTruth(x) ==
    IF x.type = "None" THEN {"True"}
    ELSE IF x.type = "list" THEN {"False"}
    ELSE IF Size(x) > 1 THEN {"ValueError"}
    ELSE IF Size(x) = 1 THEN {"False"}
    ELSE {"False", "ValueError"}

\* len(x[0]): the length of the first row; the first entry of a 1-dimensional array
\* is a number, which has no len(); an empty array has no first entry
LenOfFirst(x) ==
    IF x.ndim = 2
    THEN IF x.rows = <<>> THEN [outcome |-> "IndexError"]
         ELSE [outcome |-> "ok", len |-> Len(x.rows[1])]
    ELSE IF x.rows[1] = <<>> THEN [outcome |-> "IndexError"]
         ELSE [outcome |-> "TypeError"]

\* mutant: the 1 of the identity quaternion is put in the first row
WorldOrientations_first(n) ==
    Array("ndarray", 2, [r \in 1..4 |-> [i \in 1..n |-> IF r = 1 THEN 1 ELSE 0]])

\* np.zeros((4, n)) with orientations[3] = 1
WorldOrientations(n) ==
    Array("ndarray", 2, [r \in 1..4 |-> [i \in 1..n |-> IF r = 4 THEN 1 ELSE 0]])

\* np.zeros(n)
Inactive(n) == Array("ndarray", 1, <<[i \in 1..n |-> 0]>>)

\* one optional argument of ToolPath.__init__: the default when it is None, the
\* argument itself when len(argument[0]) is the number of positions
Given(argument, default, n) ==
    UNION {
        IF truth = "True" THEN {[outcome |-> "ok", value |-> default]}
        ELSE IF truth = "ValueError" THEN {[outcome |-> "ValueError"]}
        ELSE LET first == LenOfFirst(argument)
             IN  IF first.outcome # "ok" THEN {[outcome |-> first.outcome]}
                 ELSE IF first.len # n THEN {[outcome |-> "ValueError"]}
                 ELSE {[outcome |-> "ok", value |-> argument]}
        : truth \in EqNoneTruth(argument)}

\* ToolPath.__init__: the set of its possible results
ToolPath_init(positions, orientations, tool_acivations) ==
    LET n == Len(positions.rows[1])
    IN  UNION {
            IF o.outcome # "ok" THEN {[outcome |-> o.outcome]}
            ELSE {IF t.outcome # "ok" THEN [outcome |-> t.outcome]
                  ELSE [outcome |-> "ok",
                        path |-> [positions |-> positions, orientations |-> o.value,
                                  tool_activations |-> t.value]]
                  : t \in Given(tool_acivations, Inactive(n), n)}
            : o \in Given(orientations, WorldOrientations(n), n)}

\* ToolPath.__len__
len(path) == Len(path.positions.rows[1])

\* mutant: every row is translated by the first component of the vector
translate_first(path, vector) ==
    [path EXCEPT !.positions.rows =
        [r \in 1..3 |-> [i \in DOMAIN @[r] |-> @[r][i] + vector[1]]]]

\* ToolPath.translate: the three rows of positions are added to in place
translate(path, vector) ==
    [path EXCEPT !.positions.rows =
        [r \in 1..3 |-> [i \in DOMAIN @[r] |-> @[r][i] + vector[r]]]]

\* np.append(x, y, axis=1) and np.append(x, y)
np_append_axis1(x, y) ==
    Array("ndarray", 2, [r \in DOMAIN x.rows |-> x.rows[r] \o y.rows[r]])

np_append(x, y) == Array("ndarray", 1, <<Flatten(x.rows) \o Flatten(y.rows)>>)

\* mutant: the tool activations are joined in the other order
append_activations_swapped(self, tool_path) ==
    [positions |-> np_append_axis1(self.positions, tool_path.positions),
     orientations |-> np_append_axis1(self.orientations, tool_path.orientations),
     tool_activations |-> np_append(tool_path.tool_activations, self.tool_activations)]

\* mutant: prepend joins the paths in the order of append
prepend_appending(self, tool_path) ==
    [positions |-> np_append_axis1(self.positions, tool_path.positions),
     orientations |-> np_append_axis1(self.orientations, tool_path.orientations),
     tool_activations |-> np_append(self.tool_activations, tool_path.tool_activations)]

\* ToolPath.append and ToolPath.prepend: the tool path they leave in self
append(self, tool_path) ==
    [positions |-> np_append_axis1(self.positions, tool_path.positions),
     orientations |-> np_append_axis1(self.orientations, tool_path.orientations),
     tool_activations |-> np_append(self.tool_activations, tool_path.tool_activations)]

prepend(self, tool_path) ==
    [positions |-> np_append_axis1(tool_path.positions, self.positions),
     orientations |-> np_append_axis1(tool_path.orientations, self.orientations),
     tool_activations |-> np_append(tool_path.tool_activations, self.tool_activations)]

(***************************************************************************)
(* The arguments tool paths are constructed from: the i-th pose given has  *)
(* the position, orientation and activation below, so that the poses of a  *)
(* path differ from each other and from the defaults.                      *)
(***************************************************************************)
PointOf(i) == <<i - 1, i % 2, 0>>

QuatOf(i) == IF i % 2 = 1 THEN <<1, 0, 0, 0>> ELSE <<0, 1, 0, 0>>

ActiveOf(i) == i % 2

PositionArray(n) == FromColumns("ndarray", 3, [i \in 1..n |-> PointOf(i)])

OrientationArray(type, n) == FromColumns(type, 4, [i \in 1..n |-> QuatOf(i)])

ActivationArray(type, ndim, n) == Array(type, ndim, <<[i \in 1..n |-> ActiveOf(i)]>>)

\* every kind of argument: absent, list or numpy array, 1- or 2-dimensional, of
\* every length
AnyArguments ==
    {PositionArray(n) : n \in 0..MaxLen}
    \X ({None} \cup {OrientationArray(type, n) :
                        type \in {"list", "ndarray"}, n \in 0..MaxLen})
    \X ({None} \cup {ActivationArray(arg[1], arg[2], arg[3]) :
                        arg \in {"list", "ndarray"} \X {1, 2} \X (0..MaxLen)})

\* arguments the constructor accepts: positions alone, or with lists that have one
\* column per position
AcceptedArguments ==
    UNION {{<<PositionArray(n), None, None>>,
            <<PositionArray(n), OrientationArray("list", n), None>>,
            <<PositionArray(n), OrientationArray("list", n), ActivationArray("list", 2, n)>>}
           : n \in 0..MaxLen}

ToolPathInit(names, arguments) ==
    \E name \in names, args \in arguments :
        \E made \in ToolPath_init(args[1], args[2], args[3]) :
            /\ paths' = IF made.outcome = "ok"
                        THEN [paths EXCEPT ![name] = made.path]
                        ELSE paths
            /\ last' = [op |-> "ToolPath", name |-> name, positions |-> args[1],
                        orientations |-> args[2], tool_acivations |-> args[3],
                        outcome |-> made.outcome]
            /\ UNCHANGED <<engine, particles, extruder, robot>>

\* the vector paths are translated by; a path is translated while its points stay
\* within MaxCoord
Vectors == {<<1, 0, 2>>}

Translate ==
    \E name \in PathNames, vector \in Vectors :
        /\ paths[name] # NoPath
        /\ \A r \in 1..3 : \A i \in 1..len(paths[name]) :
            paths[name].positions.rows[r][i] + vector[r] <= MaxCoord
        /\ paths' = [paths EXCEPT ![name] = translate(@, vector)]
        /\ last' = [op |-> "translate", name |-> name, vector |-> vector]
        /\ UNCHANGED <<engine, particles, extruder, robot>>

AppendPath ==
    \E a \in PathNames, b \in PathNames :
        /\ paths[a] # NoPath
        /\ paths[b] # NoPath
        /\ len(paths[a]) + len(paths[b]) <= MaxPathLen
        /\ paths' = [paths EXCEPT ![a] = append(paths[a], paths[b])]
        /\ last' = [op |-> "append", name |-> a, tool_path |-> b]
        /\ UNCHANGED <<engine, particles, extruder, robot>>

PrependPath ==
    \E a \in PathNames, b \in PathNames :
        /\ paths[a] # NoPath
        /\ paths[b] # NoPath
        /\ len(paths[a]) + len(paths[b]) <= MaxPathLen
        /\ paths' = [paths EXCEPT ![a] = prepend(paths[a], paths[b])]
        /\ last' = [op |-> "prepend", name |-> a, tool_path |-> b]
        /\ UNCHANGED <<engine, particles, extruder, robot>>

(***************************************************************************)
(* SpecToolPathInit: one tool path is constructed, from every kind of      *)
(* argument.                                                               *)
(***************************************************************************)
Construct == ToolPathInit({"a"}, AnyArguments)

SpecToolPathInit == Init /\ [][Construct]_vars

(***************************************************************************)
(* SpecToolPath: two tool paths are constructed from arguments the         *)
(* constructor accepts, and are translated, appended and prepended.        *)
(***************************************************************************)
ConstructAccepted == ToolPathInit(PathNames, AcceptedArguments)

NextToolPath ==
    \/ ConstructAccepted
    \/ Translate
    \/ AppendPath
    \/ PrependPath

SpecToolPath == Init /\ [][NextToolPath]_vars

(***************************************************************************)
(* Properties of tool paths.  The poses of a path are what iterating it    *)
(* visits: the i-th column of positions, the i-th column of orientations   *)
(* and the i-th tool activation.                                           *)
(***************************************************************************)
Poses(path) ==
    [i \in 1..len(path) |->
        [position |-> Column(path.positions, i),
         orientation |-> Column(path.orientations, i),
         tool_activation |-> Flatten(path.tool_activations.rows)[i]]]

\* C6: a ToolPath constructed from positions alone has, for each of its n positions,
\* the orientation [0, 0, 0, 1] and the tool activation 0, and its length is n.
C6_PositionsAlone ==
    (last.op = "ToolPath" /\ last.orientations = None /\ last.tool_acivations = None) =>
        LET n == Len(last.positions.rows[1])
            path == paths[last.name]
        IN  /\ last.outcome = "ok"
            /\ len(path) = n
            /\ path.positions = last.positions
            /\ \A r \in 1..4 : Len(path.orientations.rows[r]) = n
            /\ Size(path.tool_activations) = n
            /\ \A i \in 1..n :
                /\ Poses(path)[i].orientation = <<0, 0, 0, 1>>
                /\ Poses(path)[i].tool_activation = 0

\* a path of two positions was constructed from its positions alone
C6_Witness ==
    /\ last.op = "ToolPath"
    /\ last.orientations = None
    /\ last.tool_acivations = None
    /\ last.outcome = "ok"
    /\ len(paths[last.name]) = 2

\* C7: constructing a ToolPath with an orientations array or a 1-dimensional tool
\* activations array whose number of entries differs from the number of positions
\* raises ValueError; with arrays of equal length it succeeds and stores them.
\* (Stated for the constructions with at least one position and no empty array.)
C7_LengthsChecked ==
    (/\ last.op = "ToolPath"
     /\ last.orientations # None \/ last.tool_acivations # None
     /\ last.tool_acivations # None => last.tool_acivations.ndim = 1
     /\ \A x \in {last.positions, last.orientations, last.tool_acivations} :
            x # None => Size(x) > 0) =>
        LET n == Len(last.positions.rows[1])
            given == {x \in {last.orientations, last.tool_acivations} : x # None}
        IN  IF \E x \in given : Len(x.rows[1]) # n
            THEN last.outcome = "ValueError"
            ELSE /\ last.outcome = "ok"
                 /\ last.orientations # None =>
                        paths[last.name].orientations = last.orientations
                 /\ last.tool_acivations # None =>
                        paths[last.name].tool_activations = last.tool_acivations

\* C8: translate(vector) adds vector to every position of the path and leaves the
\* orientations, the tool activations and the number of poses as they were.
C8_Translate ==
    [][last'.op = "translate" =>
        LET before == paths[last'.name]
            after == paths'[last'.name]
        IN  /\ len(after) = len(before)
            /\ \A i \in 1..len(before) : \A r \in 1..3 :
                Column(after.positions, i)[r]
                    = Column(before.positions, i)[r] + last'.vector[r]
            /\ after.orientations = before.orientations
            /\ after.tool_activations = before.tool_activations]_vars

\* a path of two poses with given orientations and activations was translated
C8_Witness ==
    /\ last.op = "translate"
    /\ len(paths[last.name]) = 2
    /\ Poses(paths[last.name])[1] =
        [position |-> <<1, 1, 2>>, orientation |-> <<1, 0, 0, 0>>, tool_activation |-> 1]
    /\ Poses(paths[last.name])[2].position = <<2, 0, 2>>

\* C9 as stated: after a.append(b), a has a's previous poses followed by b's poses,
\* len(a) is the sum of the two previous lengths, and b is unchanged.
C9_AppendLeavesArgument ==
    [][last'.op = "append" =>
        LET a == last'.name
            b == last'.tool_path
        IN  /\ Poses(paths'[a]) = Poses(paths[a]) \o Poses(paths[b])
            /\ len(paths'[a]) = len(paths[a]) + len(paths[b])
            /\ paths'[b] = paths[b]]_vars

\* C9, amended: after a.append(b), a has a's previous poses followed by b's previous
\* poses, len(a) is the sum of the two previous lengths, and b is unchanged when it is
\* another object than a.
C9_Append ==
    [][last'.op = "append" =>
        LET a == last'.name
            b == last'.tool_path
        IN  /\ Poses(paths'[a]) = Poses(paths[a]) \o Poses(paths[b])
            /\ len(paths'[a]) = len(paths[a]) + len(paths[b])
            /\ a # b => paths'[b] = paths[b]]_vars

\* a path of one pose had another path of two different poses appended
C9_Witness ==
    /\ last.op = "append"
    /\ last.name # last.tool_path
    /\ len(paths[last.tool_path]) = 2
    /\ len(paths[last.name]) = 3
    /\ Poses(paths[last.name])[2] = Poses(paths[last.tool_path])[1]
    /\ Poses(paths[last.name])[3] = Poses(paths[last.tool_path])[2]
    /\ Poses(paths[last.name])[1].tool_activation
            # Poses(paths[last.name])[3].tool_activation
    /\ Poses(paths[last.name])[1].position # Poses(paths[last.name])[3].position

\* C10: after a.prepend(b), a has b's poses followed by a's previous poses, and the
\* poses a.prepend(b) leaves in a are the poses b.append(a) leaves in b.
C10_PrependMirrorsAppend ==
    [][last'.op = "prepend" =>
        LET a == last'.name
            b == last'.tool_path
        IN  /\ Poses(paths'[a]) = Poses(paths[b]) \o Poses(paths[a])
            /\ Poses(paths'[a]) = Poses(append(paths[b], paths[a]))]_vars

\* a path of two poses had another path of one different pose prepended
C10_Witness ==
    /\ last.op = "prepend"
    /\ last.name # last.tool_path
    /\ len(paths[last.tool_path]) = 1
    /\ len(paths[last.name]) = 3
    /\ Poses(paths[last.name])[1] = Poses(paths[last.tool_path])[1]
    /\ Poses(paths[last.name])[1] # Poses(paths[last.name])[2]
    /\ Poses(paths[last.name])[1] # Poses(paths[last.name])[3]

(***************************************************************************)
(* wbk_sim/robot_base.py: RobotBase.  The robot's body in the engine has a *)
(* base pose and one position per joint; joints are numbered from 0, as    *)
(* the engine numbers them.  resetBasePositionAndOrientation and           *)
(* resetJointState set what they are given.                                *)
(***************************************************************************)
MaxJoints == 2   \* joints of the robot's URDF model

BasePositions == {"x1", "x2"}

BaseOrientations == {"q1", "q2"}

JointValues == {0, 1, 2}

\* a joint_values argument: None, or the values by index
JointList(values) == [type |-> "list", values |-> values]

JointLists ==
    {JointList(v) : v \in UNION {[0..(m - 1) -> JointValues] : m \in 0..(MaxJoints + 1)}}

getNumJoints(body) == Cardinality(DOMAIN body.joints)

resetBasePositionAndOrientation(body, posObj, ornObj) ==
    [body EXCEPT !.basePosition = posObj, !.baseOrientation = ornObj]

resetJointState(body, jointIndex, targetValue) ==
    [body EXCEPT !.joints[jointIndex] = targetValue]

\* RobotBase.__init__: the URDF is loaded at the start pose, every joint is reset to 0
RobotBase_init(numJoints, start_position, start_orientation) ==
    [urdf |-> "loaded", basePosition |-> start_position,
     baseOrientation |-> start_orientation,
     joints |-> [j \in 0..(numJoints - 1) |-> 0]]

\* RobotBase.set_world_state
set_world_state(body, start_position, start_orientation) ==
    resetBasePositionAndOrientation(body, start_position, start_orientation)

\* the loop of reset_robot over range(getNumJoints): joint_values[joint] raises
\* IndexError when the list is too short; the joints reset before stay reset
RECURSIVE reset_joints(_, _, _)
reset_joints(body, joint, joint_values) ==
    IF joint >= getNumJoints(body)
    THEN [outcome |-> "ok", robot |-> body]
    ELSE IF joint \notin DOMAIN joint_values
         THEN [outcome |-> "IndexError", robot |-> body]
         ELSE reset_joints(resetJointState(body, joint, joint_values[joint]),
                           joint + 1, joint_values)

\* mutant: the loop stops one joint early
reset_robot_but_last(body, start_position, start_orientation, joint_values) ==
    LET placed == set_world_state(body, start_position, start_orientation)
        values == IF joint_values = None
                  THEN [j \in 0..(getNumJoints(body) - 1) |-> 0]
                  ELSE joint_values.values
        kept == placed.joints[getNumJoints(body) - 1]
        done == reset_joints(placed, 0, values)
    IN  [done EXCEPT !.robot.joints[getNumJoints(body) - 1] = kept]

\* RobotBase.reset_robot
reset_robot(body, start_position, start_orientation, joint_values) ==
    LET placed == set_world_state(body, start_position, start_orientation)
        values == IF joint_values = None
                  THEN [j \in 0..(getNumJoints(body) - 1) |-> 0]
                  ELSE joint_values.values
    IN  reset_joints(placed, 0, values)

RobotInit ==
    \E numJoints \in 1..MaxJoints, start_position \in BasePositions,
       start_orientation \in BaseOrientations :
        /\ robot = NoRobot
        /\ robot' = RobotBase_init(numJoints, start_position, start_orientation)
        /\ last' = [op |-> "RobotBase", start_position |-> start_position,
                    start_orientation |-> start_orientation]
        /\ UNCHANGED <<engine, particles, extruder, paths>>

SetWorldState ==
    \E start_position \in BasePositions, start_orientation \in BaseOrientations :
        /\ robot # NoRobot
        /\ robot' = set_world_state(robot, start_position, start_orientation)
        /\ last' = [op |-> "set_world_state", start_position |-> start_position,
                    start_orientation |-> start_orientation]
        /\ UNCHANGED <<engine, particles, extruder, paths>>

ResetRobot ==
    \E start_position \in BasePositions, start_orientation \in BaseOrientations,
       joint_values \in {None} \cup JointLists :
        LET done == reset_robot(robot, start_position, start_orientation, joint_values)
        IN  /\ robot # NoRobot
            /\ robot' = done.robot
            /\ last' = [op |-> "reset_robot", start_position |-> start_position,
                        start_orientation |-> start_orientation,
                        joint_values |-> joint_values, outcome |-> done.outcome,
                        before |-> robot]
            /\ UNCHANGED <<engine, particles, extruder, paths>>

(***************************************************************************)
(* SpecRobot: a robot is loaded, placed and reset.                         *)
(***************************************************************************)
NextRobot ==
    \/ RobotInit
    \/ SetWorldState
    \/ ResetRobot

SpecRobot == Init /\ [][NextRobot]_vars

\* C11: after reset_robot(start_position, start_orientation) without joint_values
\* every joint of the robot is at position 0 and the base is at the given position and
\* orientation; with joint_values, joint number i is reset to joint_values[i].
C11_ResetRobot ==
    last.op = "reset_robot" =>
        /\ robot.basePosition = last.start_position
        /\ robot.baseOrientation = last.start_orientation
        /\ DOMAIN robot.joints = DOMAIN last.before.joints
        /\ last.joint_values = None =>
            /\ last.outcome = "ok"
            /\ \A j \in DOMAIN robot.joints : robot.joints[j] = 0
        /\ last.joint_values # None =>
            /\ \A j \in DOMAIN robot.joints \cap DOMAIN last.joint_values.values :
                robot.joints[j] = last.joint_values.values[j]
            /\ DOMAIN robot.joints \subseteq DOMAIN last.joint_values.values =>
                last.outcome = "ok"

\* a robot of two joints that were not at 0, at another base pose, was reset without
\* joint_values
C11_Witness ==
    /\ last.op = "reset_robot"
    /\ last.joint_values = None
    /\ getNumJoints(robot) = 2
    /\ \A j \in DOMAIN last.before.joints : last.before.joints[j] # 0
    /\ last.before.basePosition # last.start_position
    /\ last.before.baseOrientation # last.start_orientation
    /\ \A j \in DOMAIN robot.joints : robot.joints[j] = 0

====
